---- MODULE Spec2Model ----
(***************************************************************************)
(* A model of flytekit/annotated/promise.py: Promise (a deferred value),   *)
(* ComparisonExpression, ConjunctionExpression and create_task_output.     *)
(*                                                                         *)
(* The state is a Python session: the Promise objects constructed so far,  *)
(* the expression objects the session has bound to a name, and the outcome *)
(* of the statement executed last (what it returned or raised, and the     *)
(* calls it made to the type-conversion service).                          *)
(***************************************************************************)
EXTENDS Integers, Sequences, FiniteSets, TLC

VARIABLES
    promises,   \* the Promise objects, in order of construction
    born,       \* for each Promise, the arguments its constructor was given
    exprs,      \* the expression objects bound to a name, in order of binding
    result,     \* the statement executed last: call, arguments, outcome
    converted   \* the type-conversion calls that statement made

vars == <<promises, born, exprs, result, converted>>

----------------------------------------------------------------------------
(* Bounds of the model. *)

MaxPromises == 2
MaxSeqLen == 3
MaxExprs == 3

(* The input sets. *)

Names == {"a", "b", "c"}
Types == {"int", "str"}
Nodes == {"n0", "n1"}

----------------------------------------------------------------------------
(* Python values. Every value is a record tagged by k. *)

None == [k |-> "None"]
(* An attribute that was never assigned: reading it raises AttributeError. *)
Unset == [k |-> "unset"]
Bool(b) == [k |-> "bool", v |-> b]
Str(s) == [k |-> "str", v |-> s]
Raise(exc, msg) == [k |-> "raise", exc |-> exc, msg |-> msg]
PromiseRef(i) == [k |-> "Promise", id |-> i]
ExprRef(i) == [k |-> "Expr", id |-> i]
List(items) == [k |-> "list", items |-> items]

(* flytekit.common.promise.NodeOutput: a reference to an output of a node. *)
NodeOutput(node, type, var) ==
    [k |-> "NodeOutput", node_id |-> node, sdk_type |-> type, var |-> var]

(* flytekit.models.literals.Literal: a materialized typed value. *)
Literal(type, v) == [k |-> "Literal", type |-> type, v |-> v]

(* A native Python value, of a native type. *)
Plain(type, v) == [k |-> "py", type |-> type, v |-> v]

NodeOutputs == {NodeOutput(n, t, "o0") : n \in Nodes, t \in Types}
Literals == {Literal("int", "1"), Literal("str", "x")}
PlainValues == {Plain("int", "1"), Plain("str", "x")}
Sources == NodeOutputs \cup Literals

----------------------------------------------------------------------------
(* class Promise *)

(* A constructor that does not clear _val of an unresolved Promise. *)
PromiseInit_KeepsVal(var, val) ==
    IF val.k = "NodeOutput"
    THEN [_var |-> var, _promise_ready |-> FALSE, _val |-> val, _ref |-> val]
    ELSE [_var |-> var, _promise_ready |-> TRUE, _val |-> val, _ref |-> Unset]

PromiseInit(var, val) ==
    IF val.k = "NodeOutput"
    THEN [_var |-> var, _promise_ready |-> FALSE, _val |-> None, _ref |-> val]
    ELSE [_var |-> var, _promise_ready |-> TRUE, _val |-> val, _ref |-> Unset]

Promise_is_ready(self) == self._promise_ready

Promise_val(self) == self._val

Promise_ref(self) ==
    IF self._ref.k = "unset"
    THEN Raise("AttributeError", "'Promise' object has no attribute '_ref'")
    ELSE self._ref

Promise_var(self) == self._var

TruthMsg == "Cannot perform truth value testing"

Promise__bool__(self) == Raise("ValueError", TruthMsg)

Promise__and__(self, other) ==
    Raise("ValueError", "Cannot perform Logical AND of Promise with other")

Promise__or__(self, other) ==
    Raise("ValueError", "Cannot perform Logical OR of Promise with other")

(* A with_overrides that resolves the Promise in place. *)
Promise_with_overrides_Resolves(ps, i) ==
    [heap |-> [ps EXCEPT ![i]._promise_ready = TRUE], ret |-> PromiseRef(i)]

(* with_overrides only prints and returns self: the heap it leaves and the
   object it returns. *)
Promise_with_overrides(ps, i) == [heap |-> ps, ret |-> PromiseRef(i)]

----------------------------------------------------------------------------
(* class ComparisonOps(Enum), class ConjunctionOps(Enum): the member names. *)

ComparisonOps == {"EQ", "NE", "GT", "GTE", "LT", "LTE"}

ConjunctionOps == {"AND", "OR"}

(* ComparisonOps.<name>: the member, or AttributeError when the enum has no
   member of that name. *)
ComparisonOps_getattr(name) ==
    IF name \in ComparisonOps
    THEN [k |-> "ComparisonOps", name |-> name]
    ELSE Raise("AttributeError", name)

(* flytekit.engine.python_value_to_idl_literal(ctx, value, sdk_type): the
   type-conversion service. It returns the typed literal of a native value of
   the target type, and fails on any other value. *)
python_value_to_idl_literal(value, type) ==
    IF value.k = "py" /\ value.type = type
    THEN Literal(type, value.v)
    ELSE Raise("TypeError", "cannot convert")

----------------------------------------------------------------------------
(* class ComparisonExpression *)

(* _type is None *)
NoType == "None"

CompletedMsg == "Comparison of completed promise is not allowed."
NonComparableMsg == "Comparison between non comparable types"
NoPromiseMsg == "Either LHS or RHS should be a promise"

(* __init__, the lhs block: self._lhs and _type after it, or what it raises. *)
InitLhs(ps, lhs) ==
    IF lhs.k = "Promise"
    THEN IF Promise_is_ready(ps[lhs.id])
         THEN Raise("ValueError", CompletedMsg)
         ELSE [k |-> "ok", _lhs |-> Promise_ref(ps[lhs.id]),
               _type |-> Promise_ref(ps[lhs.id]).sdk_type]
    ELSE [k |-> "ok", _lhs |-> None, _type |-> NoType]

(* An rhs block that takes a resolved Promise for a native value. *)
InitRhs_ReadyAsValue(ps, rhs, _type) ==
    IF rhs.k = "Promise" /\ ~Promise_is_ready(ps[rhs.id])
    THEN IF _type # NoType /\ _type # Promise_ref(ps[rhs.id]).sdk_type
         THEN Raise("ValueError", NonComparableMsg)
         ELSE [k |-> "ok", _rhs |-> Promise_ref(ps[rhs.id]),
               _type |-> Promise_ref(ps[rhs.id]).sdk_type]
    ELSE [k |-> "ok", _rhs |-> None, _type |-> _type]

(* An rhs block that does not compare the declared types. *)
InitRhs_NoTypeCheck(ps, rhs, _type) ==
    IF rhs.k = "Promise"
    THEN IF Promise_is_ready(ps[rhs.id])
         THEN Raise("ValueError", CompletedMsg)
         ELSE [k |-> "ok", _rhs |-> Promise_ref(ps[rhs.id]),
               _type |-> Promise_ref(ps[rhs.id]).sdk_type]
    ELSE [k |-> "ok", _rhs |-> None, _type |-> _type]

(* __init__, the rhs block, entered with the _type the lhs block left. *)
InitRhs(ps, rhs, _type) ==
    IF rhs.k = "Promise"
    THEN IF Promise_is_ready(ps[rhs.id])
         THEN Raise("ValueError", CompletedMsg)
         ELSE IF _type # NoType /\ _type # Promise_ref(ps[rhs.id]).sdk_type
              THEN Raise("ValueError", NonComparableMsg)
              ELSE [k |-> "ok", _rhs |-> Promise_ref(ps[rhs.id]),
                    _type |-> Promise_ref(ps[rhs.id]).sdk_type]
    ELSE [k |-> "ok", _rhs |-> None, _type |-> _type]

(* A constructor without the check that one operand is a Promise. *)
NeitherIsPromise_Unchecked(_type) == FALSE

(* if _type is None: raise *)
NeitherIsPromise(_type) == _type = NoType

(* __init__, the two conversions: the operand as stored, and the conversion
   calls made for it. *)
Resolve(stored, operand, _type) ==
    IF stored = None
    THEN [v |-> python_value_to_idl_literal(operand, _type),
          conv |-> << <<operand, Str(_type)>> >>]
    ELSE [v |-> stored, conv |-> <<>>]

ComparisonObject(lhs, op, rhs) ==
    [k |-> "ComparisonExpression", _lhs |-> lhs, _op |-> op, _rhs |-> rhs]

(* ComparisonExpression(lhs, op, rhs): the new object or the exception, and
   the conversion calls made. *)
ComparisonInit(ps, lhs, op, rhs) ==
    LET l == InitLhs(ps, lhs) IN
    IF l.k = "raise" THEN [ret |-> l, conv |-> <<>>] ELSE
    LET r == InitRhs(ps, rhs, l._type) IN
    IF r.k = "raise" THEN [ret |-> r, conv |-> <<>>] ELSE
    IF NeitherIsPromise(r._type)
    THEN [ret |-> Raise("ValueError", NoPromiseMsg), conv |-> <<>>] ELSE
    LET rl == Resolve(l._lhs, lhs, r._type) IN
    IF rl.v.k = "raise" THEN [ret |-> rl.v, conv |-> rl.conv] ELSE
    LET rr == Resolve(r._rhs, rhs, r._type) IN
    IF rr.v.k = "raise" THEN [ret |-> rr.v, conv |-> rl.conv \o rr.conv] ELSE
    [ret |-> ComparisonObject(rl.v, op, rr.v), conv |-> rl.conv \o rr.conv]

(* Promise.__eq__ .. Promise.__le__: each names a member of ComparisonOps and
   constructs the expression with it. *)
PromiseCompare(ps, self, member, other) ==
    LET op == ComparisonOps_getattr(member) IN
    IF op.k = "raise" THEN [ret |-> op, conv |-> <<>>]
    ELSE ComparisonInit(ps, self, op.name, other)

Promise__eq__(ps, self, other) == PromiseCompare(ps, self, "EQ", other)
Promise__ne__(ps, self, other) == PromiseCompare(ps, self, "NE", other)
Promise__gt__(ps, self, other) == PromiseCompare(ps, self, "GT", other)
Promise__ge__(ps, self, other) == PromiseCompare(ps, self, "GE", other)
Promise__lt__(ps, self, other) == PromiseCompare(ps, self, "LT", other)
Promise__le__(ps, self, other) == PromiseCompare(ps, self, "LE", other)

ComparisonExpression__bool__(self) == Raise("ValueError", TruthMsg)

----------------------------------------------------------------------------
(* class ConjunctionExpression, and the & and | of both expression classes.
   A child is held by reference: ExprRef, or whatever else was passed. *)

ConjunctionInit(lhs, op, rhs) ==
    [k |-> "ConjunctionExpression", _lhs |-> lhs, _op |-> op, _rhs |-> rhs]

ComparisonExpression__and__(self, other) == ConjunctionInit(self, "AND", other)

ComparisonExpression__or__(self, other) == ConjunctionInit(self, "OR", other)

ConjunctionExpression__and__(self, other) == ConjunctionInit(self, "AND", other)

(* An | that builds an AND node. *)
ConjunctionExpression__or__AsAnd(self, other) == ConjunctionInit(self, "AND", other)

ConjunctionExpression__or__(self, other) == ConjunctionInit(self, "OR", other)

(* A bool() that answers. *)
ConjunctionExpression__bool__Truthy(self) == Bool(TRUE)

ConjunctionExpression__bool__(self) == Raise("ValueError", TruthMsg)

----------------------------------------------------------------------------
(* create_task_output *)

(* collections.namedtuple("TaskOutput", variables) rejects a repeated field. *)
HasDuplicate(variables) ==
    \E i, j \in DOMAIN variables : i # j /\ variables[i] = variables[j]

(* class Output(namedtuple): the fields in order, and the value of each. *)
Output(variables, items) ==
    IF HasDuplicate(variables)
    THEN Raise("ValueError", "Encountered duplicate field name")
    ELSE [k |-> "Output", _fields |-> variables, items |-> items]

(* A create_task_output that wraps a single Promise too. *)
create_task_output_WrapsOne(ps, input) ==
    IF input = None THEN None
    ELSE IF input.k = "Promise" THEN input
    ELSE IF Len(input.items) = 0 THEN None
    ELSE Output([i \in DOMAIN input.items |-> Promise_var(ps[input.items[i].id])],
                input.items)

create_task_output(ps, input) ==
    IF input = None THEN None
    ELSE IF input.k = "Promise" THEN input
    ELSE IF Len(input.items) = 0 THEN None
    ELSE IF Len(input.items) = 1 THEN input.items[1]
    ELSE Output([i \in DOMAIN input.items |-> Promise_var(ps[input.items[i].id])],
                input.items)

(* Output.with_overrides: forwards to the first field and returns self. *)
Output_with_overrides(ps, self) ==
    [heap |-> Promise_with_overrides(ps, self.items[1].id).heap, ret |-> self]

----------------------------------------------------------------------------
(* The session. A statement runs when the session is idle and leaves its
   outcome in result; the outcome is then bound to a name (Keep), used by a
   chained call, or dropped (Discard). *)

Outcome(call, args, ret) == [call |-> call, args |-> args, ret |-> ret]

NoOutcome == Outcome("idle", <<>>, None)

Idle == result = NoOutcome

Init ==
    /\ promises = <<>>
    /\ born = <<>>
    /\ exprs = <<>>
    /\ result = NoOutcome
    /\ converted = <<>>

Ids == 1..Len(promises)

PromiseRefs == {PromiseRef(i) : i \in Ids}

ExprRefs == {ExprRef(e) : e \in 1..Len(exprs)}

(* The operands of a comparison: the Promises and the native values. *)
Operands == PromiseRefs \cup PlainValues

(* A statement that returns or raises r.ret and changes no object. *)
Call(call, args, r) ==
    /\ Idle
    /\ result' = Outcome(call, args, r.ret)
    /\ converted' = r.conv
    /\ UNCHANGED <<promises, born, exprs>>

Pure(ret) == [ret |-> ret, conv |-> <<>>]

Discard ==
    /\ ~Idle
    /\ result' = NoOutcome
    /\ converted' = <<>>
    /\ UNCHANGED <<promises, born, exprs>>

NewPromise(var, val) ==
    /\ Idle
    /\ Len(promises) < MaxPromises
    /\ promises' = Append(promises, PromiseInit(var, val))
    /\ born' = Append(born, [var |-> var, val |-> val])
    /\ result' = Outcome("Promise", <<Str(var), val>>, PromiseRef(Len(promises) + 1))
    /\ converted' = <<>>
    /\ UNCHANGED exprs

Read_is_ready(i) ==
    Call("is_ready", <<PromiseRef(i)>>, Pure(Bool(Promise_is_ready(promises[i]))))

Read_val(i) ==
    Call("val", <<PromiseRef(i)>>, Pure(Promise_val(promises[i])))

Read_ref(i) ==
    Call("ref", <<PromiseRef(i)>>, Pure(Promise_ref(promises[i])))

Read_var(i) ==
    Call("var", <<PromiseRef(i)>>, Pure(Str(Promise_var(promises[i]))))

Eq(i, other) ==
    Call("__eq__", <<PromiseRef(i), other>>, Promise__eq__(promises, PromiseRef(i), other))

Ne(i, other) ==
    Call("__ne__", <<PromiseRef(i), other>>, Promise__ne__(promises, PromiseRef(i), other))

Gt(i, other) ==
    Call("__gt__", <<PromiseRef(i), other>>, Promise__gt__(promises, PromiseRef(i), other))

Ge(i, other) ==
    Call("__ge__", <<PromiseRef(i), other>>, Promise__ge__(promises, PromiseRef(i), other))

Lt(i, other) ==
    Call("__lt__", <<PromiseRef(i), other>>, Promise__lt__(promises, PromiseRef(i), other))

Le(i, other) ==
    Call("__le__", <<PromiseRef(i), other>>, Promise__le__(promises, PromiseRef(i), other))

(* ComparisonExpression(lhs, op, rhs), called directly. *)
NewComparison(lhs, op, rhs) ==
    Call("ComparisonExpression", <<lhs, Str(op), rhs>>, ComparisonInit(promises, lhs, op, rhs))

PromiseBool(i) ==
    Call("bool", <<PromiseRef(i)>>, Pure(Promise__bool__(PromiseRef(i))))

PromiseAnd(i, other) ==
    Call("__and__", <<PromiseRef(i), other>>, Pure(Promise__and__(PromiseRef(i), other)))

PromiseOr(i, other) ==
    Call("__or__", <<PromiseRef(i), other>>, Pure(Promise__or__(PromiseRef(i), other)))

WithOverrides(i) ==
    /\ Idle
    /\ promises' = Promise_with_overrides(promises, i).heap
    /\ result' = Outcome("with_overrides", <<PromiseRef(i)>>,
                         Promise_with_overrides(promises, i).ret)
    /\ converted' = <<>>
    /\ UNCHANGED <<born, exprs>>

(* The arguments of create_task_output: None, one Promise, or a list. *)
Lists == UNION {[1..n -> PromiseRefs] : n \in 0..MaxSeqLen}

TaskOutputs == {None} \cup PromiseRefs \cup {List(l) : l \in Lists}

CreateTaskOutput(input) ==
    Call("create_task_output", <<input>>, Pure(create_task_output(promises, input)))

(* with_overrides called on the aggregate create_task_output returned. *)
OutputWithOverrides ==
    /\ result.call = "create_task_output"
    /\ result.ret.k = "Output"
    /\ promises' = Output_with_overrides(promises, result.ret).heap
    /\ result' = Outcome("Output.with_overrides", <<result.ret>>,
                         Output_with_overrides(promises, result.ret).ret)
    /\ converted' = <<>>
    /\ UNCHANGED <<born, exprs>>

(* The session of Promises: construction, accessors, comparisons, the
   forbidden coercions and combinations, overrides and aggregation. *)
Next ==
    \/ Idle /\ \E var \in Names, val \in Sources : NewPromise(var, val)
    \/ Idle /\ \E i \in Ids : Read_is_ready(i)
    \/ Idle /\ \E i \in Ids : Read_val(i)
    \/ Idle /\ \E i \in Ids : Read_ref(i)
    \/ Idle /\ \E i \in Ids : Read_var(i)
    \/ Idle /\ \E i \in Ids, other \in Operands : Eq(i, other)
    \/ Idle /\ \E i \in Ids, other \in Operands : Ne(i, other)
    \/ Idle /\ \E i \in Ids, other \in Operands : Gt(i, other)
    \/ Idle /\ \E i \in Ids, other \in Operands : Ge(i, other)
    \/ Idle /\ \E i \in Ids, other \in Operands : Lt(i, other)
    \/ Idle /\ \E i \in Ids, other \in Operands : Le(i, other)
    \/ Idle /\ \E lhs \in Operands, op \in ComparisonOps, rhs \in Operands : NewComparison(lhs, op, rhs)
    \/ Idle /\ \E i \in Ids : PromiseBool(i)
    \/ Idle /\ \E i \in Ids, other \in Operands : PromiseAnd(i, other)
    \/ Idle /\ \E i \in Ids, other \in Operands : PromiseOr(i, other)
    \/ Idle /\ \E i \in Ids : WithOverrides(i)
    \/ Idle /\ \E input \in TaskOutputs : CreateTaskOutput(input)
    \/ OutputWithOverrides
    \/ Discard

Spec == Init /\ [][Next]_vars

----------------------------------------------------------------------------
(* The session of create_task_output: the Promises a task produced are
   given, and are aggregated. *)

OutputSources == {NodeOutput("n0", "int", "o0"), Literal("int", "1")}

InitOutput ==
    /\ born \in UNION {[1..n -> [var : Names, val : OutputSources]] : n \in 0..MaxSeqLen}
    /\ promises = [i \in DOMAIN born |-> PromiseInit(born[i].var, born[i].val)]
    /\ exprs = <<>>
    /\ result = NoOutcome
    /\ converted = <<>>

NextOutput ==
    \/ Idle /\ \E input \in TaskOutputs : CreateTaskOutput(input)
    \/ OutputWithOverrides
    \/ Discard

SpecOutput == InitOutput /\ [][NextOutput]_vars

----------------------------------------------------------------------------
(* The session of expression trees: over one unresolved and one resolved
   Promise, comparisons are built with ==, bound to names, and combined
   with & and |. *)

Keep ==
    /\ result.ret.k \in {"ComparisonExpression", "ConjunctionExpression"}
    /\ Len(exprs) < MaxExprs
    /\ exprs' = Append(exprs, result.ret)
    /\ result' = NoOutcome
    /\ converted' = <<>>
    /\ UNCHANGED <<promises, born>>

IsComparison(e) == exprs[e].k = "ComparisonExpression"

IsConjunction(e) == exprs[e].k = "ConjunctionExpression"

CompAnd(e, other) ==
    /\ IsComparison(e)
    /\ Call("__and__", <<ExprRef(e), other>>,
            Pure(ComparisonExpression__and__(ExprRef(e), other)))

CompOr(e, other) ==
    /\ IsComparison(e)
    /\ Call("__or__", <<ExprRef(e), other>>,
            Pure(ComparisonExpression__or__(ExprRef(e), other)))

ConjAnd(e, other) ==
    /\ IsConjunction(e)
    /\ Call("__and__", <<ExprRef(e), other>>,
            Pure(ConjunctionExpression__and__(ExprRef(e), other)))

ConjOr(e, other) ==
    /\ IsConjunction(e)
    /\ Call("__or__", <<ExprRef(e), other>>,
            Pure(ConjunctionExpression__or__(ExprRef(e), other)))

CompBool(e) ==
    /\ IsComparison(e)
    /\ Call("bool", <<ExprRef(e)>>, Pure(ComparisonExpression__bool__(ExprRef(e))))

ConjBool(e) ==
    /\ IsConjunction(e)
    /\ Call("bool", <<ExprRef(e)>>, Pure(ConjunctionExpression__bool__(ExprRef(e))))

(* What & and | are applied to: the bound expressions and the Promises. *)
TreeOperands == ExprRefs \cup PromiseRefs

TreePromises ==
    << [var |-> "a", val |-> NodeOutput("n0", "int", "o0")],
       [var |-> "b", val |-> Literal("int", "1")] >>

InitTree ==
    /\ born = TreePromises
    /\ promises = [i \in DOMAIN born |-> PromiseInit(born[i].var, born[i].val)]
    /\ exprs = <<>>
    /\ result = NoOutcome
    /\ converted = <<>>

Exprs == 1..Len(exprs)

NextTree ==
    \/ Idle /\ \E i \in Ids, other \in Operands : Eq(i, other)
    \/ Keep
    \/ Idle /\ \E e \in Exprs, other \in TreeOperands : CompAnd(e, other)
    \/ Idle /\ \E e \in Exprs, other \in TreeOperands : CompOr(e, other)
    \/ Idle /\ \E e \in Exprs, other \in TreeOperands : ConjAnd(e, other)
    \/ Idle /\ \E e \in Exprs, other \in TreeOperands : ConjOr(e, other)
    \/ Idle /\ \E i \in Ids : PromiseBool(i)
    \/ Idle /\ \E e \in Exprs : CompBool(e)
    \/ Idle /\ \E e \in Exprs : ConjBool(e)
    \/ Idle /\ \E i \in Ids, other \in TreeOperands : PromiseAnd(i, other)
    \/ Idle /\ \E i \in Ids, other \in TreeOperands : PromiseOr(i, other)
    \/ Discard

SpecTree == InitTree /\ [][NextTree]_vars

----------------------------------------------------------------------------
(* What the properties below read off the statement executed last. *)

IsReadyPromise(x) == x.k = "Promise" /\ promises[x.id]._promise_ready

IsUnreadyPromise(x) == x.k = "Promise" /\ ~promises[x.id]._promise_ready

(* The six comparison operators and the member each is meant to pass. *)
OperatorCalls == {"__eq__", "__ne__", "__gt__", "__ge__", "__lt__", "__le__"}

OpOf(call) ==
    CASE call = "__eq__" -> "EQ"
      [] call = "__ne__" -> "NE"
      [] call = "__gt__" -> "GT"
      [] call = "__ge__" -> "GTE"
      [] call = "__lt__" -> "LT"
      [] call = "__le__" -> "LTE"

(* The statements that enter ComparisonExpression.__init__: the direct call
   and the operators that name an existing member. *)
ConstructorCalls == {"ComparisonExpression", "__eq__", "__ne__", "__gt__", "__lt__"}

LhsArg == result.args[1]

RhsArg == IF result.call = "ComparisonExpression" THEN result.args[3] ELSE result.args[2]

OpArg == IF result.call = "ComparisonExpression" THEN result.args[2].v ELSE OpOf(result.call)

(* The reference and the declared type a Promise was constructed with. *)
RefOf(x) == born[x.id].val

TypeOf(x) == born[x.id].val.sdk_type

----------------------------------------------------------------------------
(* C1 as stated: an unresolved Promise gives is_ready false and its stored
   reference and fails on val; a resolved Promise gives is_ready true and its
   stored literal and fails on ref. *)
C1_StateError ==
    /\ (result.call = "is_ready") =>
           result.ret = Bool(born[result.args[1].id].val.k # "NodeOutput")
    /\ (result.call = "val" /\ IsUnreadyPromise(result.args[1])) =>
           result.ret.k = "raise"
    /\ (result.call = "val" /\ IsReadyPromise(result.args[1])) =>
           result.ret = born[result.args[1].id].val
    /\ (result.call = "ref" /\ IsUnreadyPromise(result.args[1])) =>
           result.ret = born[result.args[1].id].val
    /\ (result.call = "ref" /\ IsReadyPromise(result.args[1])) =>
           result.ret.k = "raise"

(* C1 amended: as C1, except that val of an unresolved Promise does not fail:
   it returns None; ref of a resolved Promise fails with AttributeError. *)
C1_Accessors ==
    /\ (result.call = "is_ready") =>
           result.ret = Bool(born[result.args[1].id].val.k # "NodeOutput")
    /\ (result.call = "val" /\ IsUnreadyPromise(result.args[1])) =>
           result.ret = None
    /\ (result.call = "val" /\ IsReadyPromise(result.args[1])) =>
           result.ret = born[result.args[1].id].val
    /\ (result.call = "ref" /\ IsUnreadyPromise(result.args[1])) =>
           result.ret = born[result.args[1].id].val
    /\ (result.call = "ref" /\ IsReadyPromise(result.args[1])) =>
           (result.ret.k = "raise" /\ result.ret.exc = "AttributeError")

(* val was read from an unresolved Promise and returned None. *)
C1_Witness ==
    /\ result.call = "val"
    /\ IsUnreadyPromise(result.args[1])
    /\ result.ret = None

----------------------------------------------------------------------------
(* The other operand is valid for an unresolved Promise: a native value of
   its declared type, or an unresolved Promise of the same declared type. *)
ValidOther(self, other) ==
    \/ other.k = "py" /\ other.type = TypeOf(self)
    \/ IsUnreadyPromise(other) /\ TypeOf(other) = TypeOf(self)

(* C2 as stated: each of the six comparison operators, applied to an
   unresolved Promise and a valid operand, returns a ComparisonExpression
   whose operator is the corresponding member and whose left operand is the
   Promise's reference. *)
C2_SixOperators ==
    (/\ result.call \in OperatorCalls
     /\ IsUnreadyPromise(result.args[1])
     /\ ValidOther(result.args[1], result.args[2]))
    => (/\ result.ret.k = "ComparisonExpression"
        /\ result.ret._op = OpOf(result.call)
        /\ result.ret._lhs = RefOf(result.args[1]))

----------------------------------------------------------------------------
(* C3: constructing a ComparisonExpression with a resolved Promise on either
   side raises the usage error, whatever the other operand is, and returns
   no expression. *)
C3_ReadyOperandRejected ==
    (/\ result.call \in ConstructorCalls
     /\ IsReadyPromise(LhsArg) \/ IsReadyPromise(RhsArg))
    => result.ret = Raise("ValueError", CompletedMsg)

(* A native value was compared with a resolved Promise on the right. *)
C3_Witness ==
    /\ result.call = "ComparisonExpression"
    /\ LhsArg.k = "py"
    /\ IsReadyPromise(RhsArg)
    /\ result.ret.k = "raise"

----------------------------------------------------------------------------
(* C4: constructing a ComparisonExpression from two unresolved Promises
   raises the type-mismatch error when their declared types differ, and
   otherwise returns the expression holding the left reference, the operator
   and the right reference as given. *)
C4_TwoPromises ==
    (/\ result.call \in ConstructorCalls
     /\ IsUnreadyPromise(LhsArg)
     /\ IsUnreadyPromise(RhsArg))
    => IF TypeOf(LhsArg) # TypeOf(RhsArg)
       THEN result.ret = Raise("ValueError", NonComparableMsg)
       ELSE result.ret = [k |-> "ComparisonExpression", _lhs |-> RefOf(LhsArg),
                          _op |-> OpArg, _rhs |-> RefOf(RhsArg)]

(* Two unresolved Promises of one type and different references were
   compared, and an expression came back. *)
C4_Witness ==
    /\ result.call = "ComparisonExpression"
    /\ IsUnreadyPromise(LhsArg)
    /\ IsUnreadyPromise(RhsArg)
    /\ TypeOf(LhsArg) = TypeOf(RhsArg)
    /\ RefOf(LhsArg) # RefOf(RhsArg)
    /\ result.ret.k = "ComparisonExpression"

----------------------------------------------------------------------------
(* C5: constructing a ComparisonExpression from two native values raises the
   usage error, for every operator, and makes no conversion call. *)
C5_NoPromiseRejected ==
    (/\ result.call = "ComparisonExpression"
     /\ LhsArg.k = "py"
     /\ RhsArg.k = "py")
    => (/\ result.ret = Raise("ValueError", NoPromiseMsg)
        /\ converted = <<>>)

(* Two native values of one type were compared with LTE. *)
C5_Witness ==
    /\ result.call = "ComparisonExpression"
    /\ LhsArg.k = "py"
    /\ RhsArg = LhsArg
    /\ OpArg = "LTE"
    /\ result.ret.k = "raise"

----------------------------------------------------------------------------
(* C6: bool() of a Promise (resolved or not), of a ComparisonExpression and
   of a ConjunctionExpression raises the usage error, yields no truth value,
   and changes no object. *)
C6_NoTruthValue ==
    [][(result'.call = "bool") =>
           (/\ result'.ret = Raise("ValueError", TruthMsg)
            /\ promises' = promises
            /\ exprs' = exprs)]_vars

(* bool() was applied to a bound ConjunctionExpression and raised. *)
C6_Witness ==
    /\ result.call = "bool"
    /\ result.args[1].k = "Expr"
    /\ IsConjunction(result.args[1].id)
    /\ result.ret.k = "raise"

----------------------------------------------------------------------------
(* C7: & or | applied to an expression e with operand o returns a new
   ConjunctionExpression with left e, right o and the matching operator, and
   changes no bound expression; so (a & b) | c is OR over the AND of a and b
   on the left and c on the right. *)
C7_LeftLeaning ==
    [][/\ \A e \in DOMAIN exprs : e \in DOMAIN exprs' /\ exprs'[e] = exprs[e]
       /\ (result'.call \in {"__and__", "__or__"} /\ result'.args[1].k = "Expr") =>
              (/\ result'.ret = [k |-> "ConjunctionExpression",
                                 _lhs |-> result'.args[1],
                                 _op |-> IF result'.call = "__and__" THEN "AND" ELSE "OR",
                                 _rhs |-> result'.args[2]]
               /\ exprs' = exprs)]_vars

(* (a & b) | c was built: a and b are different comparisons, a & b is bound,
   and | was applied to it with the comparison c. *)
C7_Witness ==
    /\ result.call = "__or__"
    /\ result.args[1].k = "Expr"
    /\ result.args[2].k = "Expr"
    /\ IsConjunction(result.args[1].id)
    /\ IsComparison(result.args[2].id)
    /\ LET ab == exprs[result.args[1].id] IN
         /\ ab._op = "AND"
         /\ ab._lhs.k = "Expr" /\ IsComparison(ab._lhs.id)
         /\ ab._rhs.k = "Expr" /\ IsComparison(ab._rhs.id)
         /\ ab._lhs # ab._rhs
    /\ result.ret._op = "OR"
    /\ result.ret._lhs = result.args[1]
    /\ result.ret._rhs = result.args[2]

----------------------------------------------------------------------------
ChildrenAreExpressions(x) ==
    (x.k = "ConjunctionExpression") => (x._lhs.k = "Expr" /\ x._rhs.k = "Expr")

(* C8 as stated: & or | with a Promise as either operand raises the usage
   error, so both children of every ConjunctionExpression are expressions. *)
C8_NoPromiseCombined ==
    /\ (/\ result.call \in {"__and__", "__or__"}
        /\ result.args[1].k = "Promise" \/ result.args[2].k = "Promise")
       => (result.ret.k = "raise" /\ result.ret.exc = "ValueError")
    /\ ChildrenAreExpressions(result.ret)
    /\ \A e \in DOMAIN exprs : ChildrenAreExpressions(exprs[e])

----------------------------------------------------------------------------
DistinctNames(items) ==
    \A i, j \in DOMAIN items :
        i # j => promises[items[i].id]._var # promises[items[j].id]._var

(* C9: create_task_output returns None for None and for an empty list, the
   one Promise itself for a list of one, and for a list of two or more
   Promises of distinct names an aggregate whose fields are the names, in the
   order of the list, each holding the Promise of that position. *)
C9_Aggregate ==
    (result.call = "create_task_output") =>
        LET input == result.args[1] IN
        /\ (input = None) => result.ret = None
        /\ (input.k = "list" /\ Len(input.items) = 0) => result.ret = None
        /\ (input.k = "list" /\ Len(input.items) = 1) => result.ret = input.items[1]
        /\ (input.k = "list" /\ Len(input.items) >= 2 /\ DistinctNames(input.items)) =>
               /\ result.ret.k = "Output"
               /\ Len(result.ret._fields) = Len(input.items)
               /\ \A i \in DOMAIN input.items :
                      /\ result.ret._fields[i] = promises[input.items[i].id]._var
                      /\ result.ret.items[i] = input.items[i]

(* Three Promises of distinct names were aggregated. *)
C9_Witness ==
    /\ result.call = "create_task_output"
    /\ result.args[1].k = "list"
    /\ Len(result.args[1].items) = 3
    /\ DistinctNames(result.args[1].items)
    /\ result.ret.k = "Output"

----------------------------------------------------------------------------
(* C10: after any sequence of statements every Promise has exactly one of
   its value and its reference set, and its name, readiness and stored value
   or reference are those its constructor was given; with_overrides returns
   the object it was called on. *)
C10_Immutable ==
    /\ Len(born) = Len(promises)
    /\ \A i \in Ids :
         /\ promises[i]._var = born[i].var
         /\ promises[i]._promise_ready = (born[i].val.k # "NodeOutput")
         /\ (promises[i]._val # None) # (promises[i]._ref # Unset)
         /\ IF born[i].val.k = "NodeOutput"
            THEN promises[i]._ref = born[i].val
            ELSE promises[i]._val = born[i].val
    /\ (result.call \in {"with_overrides", "Output.with_overrides"}) =>
           result.ret = result.args[1]

(* with_overrides was called on an aggregate whose first field is an
   unresolved Promise. *)
C10_Witness ==
    /\ result.call = "Output.with_overrides"
    /\ IsUnreadyPromise(result.args[1].items[1])
    /\ result.ret = result.args[1]

====
